---- MODULE Spec2Model ----
(***************************************************************************)
(* massif-combine: merging of massif.out files (src/massif-combine.cpp).   *)
(*                                                                         *)
(* A text line is a sequence of tokens; a token is a keyword of the        *)
(* grammar ("desc:", "snapshot=", "time=", the dashed rule) or a single    *)
(* character.  The concatenation of the tokens is the text of the line.    *)
(***************************************************************************)
EXTENDS Integers, Sequences, FiniteSets, TLC

\* ------------------------------------------------------------------ bounds
\* number of paths handed to add(first, last)
MaxFiles == 2
\* number of lines std::getline delivers from one source
MaxLines == 8
\* number of lines std::getline delivers from all the sources together
MaxTotal == 10

\* ------------------------------------------------------- program constants
\* largest value of `int time` (Snapshot::time, std::stoi)
INT_MAX == 2147483647

snapshot_mark == <<"#-----------">>

Digits == <<"0", "1", "2", "3", "4", "5", "6", "7", "8", "9">>

IsDigit(c) == \E d \in 1..10 : Digits[d] = c

DigitValue(c) == (CHOOSE d \in 1..10 : Digits[d] = c) - 1

\* ------------------------------------------------------------- input lines
LineDesc == <<"desc:", " ", "x">>
LineCmd == <<"cmd:", " ", "y">>
LineSnap7 == <<"snapshot=", "7">>
LineTime100 == <<"time=", "1", "0", "0">>
LineTime50 == <<"time=", "5", "0">>
LineHeap10 == <<"mem_heap_B=", "1", "0">>
LineTimeBig == <<"time=", "2", "1", "4", "7", "4", "8", "3", "6", "4", "8">>

LineHeap5 == <<"mem_heap_B=", "5">>

\* the lines a source may hold
Lines ==
  {LineDesc, snapshot_mark, LineSnap7, LineTime100, LineTime50, LineTimeBig}

\* --------------------------------------------------------------- patterns
\* std::regex("^(desc|cmd|time_unit):") searched in str
keyword_regex(str) ==
  Len(str) >= 1 /\ str[1] \in {"desc:", "cmd:", "time_unit:"}

\* a slip of snapshot_regex: "snapshot=\\d*", the digits are optional
snapshot_regex_no_digits(str) == \E i \in 1..Len(str) : str[i] = "snapshot="

\* std::regex("snapshot=\\d+") searched in str
snapshot_regex(str) ==
  \E i \in 1..(Len(str) - 1) : str[i] = "snapshot=" /\ IsDigit(str[i + 1])

\* positions where "time=(\\d+)" matches in str
TimeMatches(str) ==
  {i \in 1..(Len(str) - 1) : str[i] = "time=" /\ IsDigit(str[i + 1])}

\* std::regex("time=(\\d+)") searched in str
snapshot_time_regex(str) == TimeMatches(str) # {}

\* end of the run of digits that starts at position i (greedy \d+)
RECURSIVE DigitRunEnd(_, _)
DigitRunEnd(str, i) ==
  IF i < Len(str) /\ IsDigit(str[i + 1]) THEN DigitRunEnd(str, i + 1) ELSE i

\* match[1] of the leftmost match of snapshot_time_regex in str
TimeCapture(str) ==
  LET i == CHOOSE k \in TimeMatches(str) : \A j \in TimeMatches(str) : k <= j
  IN SubSeq(str, i + 1, DigitRunEnd(str, i + 1))

\* std::stoi on a string of digits: <<TRUE, value>>, or <<FALSE, 0>> when the
\* value does not fit an int (std::out_of_range is thrown)
RECURSIVE StoiFrom(_, _, _)
StoiFrom(ds, k, acc) ==
  IF k > Len(ds) THEN <<TRUE, acc>>
  ELSE LET d == DigitValue(ds[k])
       IN IF acc > (INT_MAX - d) \div 10 THEN <<FALSE, 0>>
          ELSE StoiFrom(ds, k + 1, acc * 10 + d)

stoi(ds) == StoiFrom(ds, 1, 0)

\* std::to_string(int) for index >= 0
RECURSIVE to_string(_)
to_string(n) ==
  IF n < 10 THEN <<Digits[n + 1]>>
  ELSE to_string(n \div 10) \o <<Digits[(n % 10) + 1]>>

\* ---------------------------------------------------------------- sources
\* A path of the input list: whether it opens, and its text: <<>> when the
\* text is not fixed in advance (getline may deliver any line of Lines, at
\* most MaxLines of them), <<t>> when the file holds exactly the lines t.
AnySource == [opens |-> TRUE, text |-> <<>>]
NoSource == [opens |-> FALSE, text |-> <<>>]
FileOf(t) == [opens |-> TRUE, text |-> <<t>>]

\* the two files of the end-to-end example
FileA ==
  <<LineDesc, snapshot_mark, LineSnap7, snapshot_mark, LineTime100, LineHeap10>>
FileB == <<snapshot_mark, LineSnap7, snapshot_mark, LineTime50, LineHeap5>>
\* FileB after a header line
FileC == <<LineCmd>> \o FileB
\* two snapshots, the second without a time= line
FileD ==
  <<LineDesc, snapshot_mark, LineSnap7, snapshot_mark, LineTime50,
    snapshot_mark, LineSnap7, snapshot_mark, LineHeap10>>
\* header lines only
FileE == <<LineCmd, LineDesc>>
\* a header line in the middle of a snapshot
FileF ==
  <<LineCmd, snapshot_mark, LineSnap7, snapshot_mark, LineTime100, LineDesc,
    LineHeap10>>

ExampleSources ==
  {FileOf(FileA), FileOf(FileB), FileOf(FileC), FileOf(FileD), FileOf(FileE),
   FileOf(FileF), NoSource}

\* the lines of the example files that are not in Lines
ExampleLines == {LineCmd, LineHeap10, LineHeap5}

\* ------------------------------------------------------------------ state
VARIABLES
  headers,        \* MassifFile::headers
  snapshots,      \* MassifFile::snapshots, each [time, contents]
  paths,          \* the input list
  it,             \* add(first, last): position of the iterator in paths
  ret,            \* add(first, last): ret
  pc,             \* "add", "getline", "added", "done", "exit", "terminated"
  status,         \* appendFile: status
  snapshot,       \* appendFile: snapshot, <<>> for nullptr, <<s>> for a pointer to s
  ignore_header,  \* appendFile: ignore_header
  nread,          \* lines read from the open source
  total,          \* lines read from all the sources
  output,         \* the destination: <<>> while no file exists, <<lines>> once created
  wret,           \* <<>> before write() returns, <<status>> after
  results,        \* history: the value of r for each path handled so far
  unsorted,       \* history: snapshots as write() found them, before std::sort
  event,          \* history: what the last loop iteration did to the pending snapshot
  span,           \* history: the lines read since the delimiter that opened a snapshot
  deleteSuccess,  \* InputArgs::deleteSuccess: -d was given
  removed         \* the positions in paths of the input files remove() has deleted

vars ==
  <<headers, snapshots, paths, it, ret, pc, status, snapshot, ignore_header,
    nread, total, output, wret, results, unsorted, event, span, deleteSuccess,
    removed>>

\* std::make_shared<Snapshot>(): value-initialised, time = 0, contents empty
NewSnapshot == [time |-> 0, contents |-> <<>>]

\* ------------------------------------------------------------- appendFile
\* a slip of appendFile: the status moves on, the pointer stays null
MakeSharedNull == <<>>

\* snapshot = std::make_shared<Snapshot>(): a pointer to a new Snapshot
MakeShared == <<NewSnapshot>>

\* a slip of appendFile: contents.size() >= 0
HasContentOrNone(snap) == snap # <<>> /\ Len(snap[1].contents) >= 0

\* snapshot != nullptr && snapshot->contents.size() > 0
HasContent(snap) == snap # <<>> /\ Len(snap[1].contents) > 0

\* if (HasContent) this->snapshots.push_back(snapshot)
Commit(snaps, snap) == IF HasContent(snap) THEN Append(snaps, snap[1]) ELSE snaps

\* a slip of appendFile: the pointer is not reset after the delimiter
KeepPending(snap) == snap

\* snapshot = nullptr after the delimiter that ends a region
Release(snap) == <<>>

\* a slip of appendFile: a delimiter is taken at the start of the file too
EndsRegionOrNone(st) == st \in {"NONE", "HEADER", "SNAPSHOT_CONTENT"}

\* status == LastLine::HEADER || status == LastLine::SNAPSHOT_CONTENT
EndsRegion(st) == st \in {"HEADER", "SNAPSHOT_CONTENT"}

\* a slip of appendFile: status = HEADER is inside if (!ignore_header)
HeaderStatusIfCaptured(st, ignore) == IF ignore THEN st ELSE "HEADER"

\* status = LastLine::HEADER, whatever ignore_header says
HeaderStatus(st, ignore) == "HEADER"

\* a slip of appendFile: the header line is kept whatever ignore_header says
PushHeaderAlways(hdrs, str, ignore) == Append(hdrs, str)

\* if (!ignore_header) this->headers.push_back(str)
PushHeader(hdrs, str, ignore) == IF ~ignore THEN Append(hdrs, str) ELSE hdrs

\* One iteration of the while (std::getline(file, str)) loop on the parser
\* configuration p = [status, snapshot, headers, snapshots]; rc tells how the
\* iteration ends: "continue" (next line), "return2" (return 2), "throw"
\* (std::stoi throws std::out_of_range, which nothing catches).
ParseLine(p, str, ignore) ==
  LET q == [p EXCEPT !.rc = "continue"] IN
  IF keyword_regex(str) THEN
    [q EXCEPT !.status = HeaderStatus(@, ignore),
              !.headers = PushHeader(@, str, ignore)]
  ELSE IF EndsRegion(p.status) /\ str = snapshot_mark THEN
    [q EXCEPT !.status = "SNAPSHOT_MARK",
              !.snapshots = Commit(@, p.snapshot),
              !.snapshot = Release(@)]
  ELSE IF p.status = "SNAPSHOT_MARK" /\ snapshot_regex(str) THEN
    [q EXCEPT !.status = "SNAPSHOT_NAME"]
  ELSE IF p.status = "SNAPSHOT_NAME" /\ str = snapshot_mark THEN
    IF p.snapshot = <<>>
    THEN [q EXCEPT !.status = "SNAPSHOT_CONTENT", !.snapshot = MakeShared]
    ELSE [q EXCEPT !.status = "SNAPSHOT_CONTENT", !.rc = "return2"]
  ELSE IF p.status = "SNAPSHOT_CONTENT" THEN
    IF p.snapshot = <<>> THEN [q EXCEPT !.rc = "return2"]
    ELSE
      LET pushed == [p.snapshot[1] EXCEPT !.contents = Append(@, str)] IN
      IF snapshot_time_regex(str) THEN
        LET v == stoi(TimeCapture(str)) IN
        IF v[1]
        THEN [q EXCEPT !.snapshot = <<[pushed EXCEPT !.time = v[2]]>>]
        ELSE [q EXCEPT !.snapshot = <<pushed>>, !.rc = "throw"]
      ELSE [q EXCEPT !.snapshot = <<pushed>>]
  ELSE q

\* a slip of appendFile: the pending snapshot is committed at the end of
\* input only when the last status is SNAPSHOT_CONTENT
ParseEndInContent(p) ==
  [p EXCEPT !.snapshots = IF p.status = "SNAPSHOT_CONTENT"
                          THEN Commit(@, p.snapshot) ELSE @,
            !.snapshot = <<>>, !.rc = "return0"]

\* after the loop: commit the pending snapshot, return 0
ParseEnd(p) ==
  [p EXCEPT !.snapshots = Commit(@, p.snapshot), !.snapshot = <<>>, !.rc = "return0"]

\* the while loop on the lines text from position k on: it ends at the first
\* iteration that does not continue, or with rc = "continue" at the end of text
RECURSIVE ParseLoop(_, _, _, _)
ParseLoop(p, text, k, ignore) ==
  IF k > Len(text) THEN p
  ELSE LET q == ParseLine(p, text[k], ignore)
       IN IF q.rc = "continue" THEN ParseLoop(q, text, k + 1, ignore) ELSE q

\* appendFile(path, ignore) on a file that opens and holds text, for a
\* Document that holds hdrs and snaps
appendFile(hdrs, snaps, text, ignore) ==
  LET q == ParseLoop([status |-> "NONE", snapshot |-> <<>>, headers |-> hdrs,
                      snapshots |-> snaps, rc |-> "continue"], text, 1, ignore)
  IN IF q.rc = "continue" THEN ParseEnd(q) ELSE q

\* the parser configuration held in the variables
Parser ==
  [status |-> status, snapshot |-> snapshot, headers |-> headers,
   snapshots |-> snapshots, rc |-> "continue"]

\* ------------------------------------------------------------------- add
\* a slip of add(path): every source is parsed with ignore_header = false
NeverIgnoreHeader(hdrs) == FALSE

\* add(path): the flag handed to appendFile
IgnoreHeaderArg(hdrs) == Len(hdrs) > 0

\* a slip of add(first, last): ret = add(*it)
LoopRetLast(old, r) == r

\* add(first, last): if ((r = add(*it)) != 0) ret = r
LoopRet(old, r) == IF r # 0 THEN r ELSE old

\* a slip of add(first, last): the loop ends at the first path that fails
LoopNextStop(i, r) == IF r = 0 THEN i + 1 ELSE Len(paths) + 1

\* add(first, last): ++it after add(*it) returned r
LoopNext(i, r) == i + 1

\* ----------------------------------------------------------------- write
\* a->time < b->time
TimeLess(a, b) == a.time < b.time

Orderings(n) == {f \in [1..n -> 1..n] : \A i, j \in 1..n : i # j => f[i] # f[j]}

\* a slip of write(): the snapshots are left in the order of arrival
NoSort(s) == {s}

\* std::sort with TimeLess: every arrangement of s in which no element precedes
\* one that is less than it (the order of equal elements is unspecified)
SortOutcomes(s) ==
  {t \in {[i \in 1..Len(s) |-> s[f[i]]] : f \in Orderings(Len(s))} :
     \A i, j \in 1..Len(t) : i < j => ~TimeLess(t[j], t[i])}

\* a slip of writeSnapshot: the index line counts from 1
writeSnapshotFromOne(index, snap) ==
  <<snapshot_mark, <<"snapshot=">> \o to_string(index + 1), snapshot_mark>>
    \o snap.contents

\* a slip of writeSnapshot: the delimiter after the index line is missing
writeSnapshotOneMark(index, snap) ==
  <<snapshot_mark, <<"snapshot=">> \o to_string(index)>> \o snap.contents

\* writeSnapshot: the three title lines, then the contents
writeSnapshot(index, snap) ==
  <<snapshot_mark, <<"snapshot=">> \o to_string(index), snapshot_mark>>
    \o snap.contents

RECURSIVE WriteSnapshots(_, _)
\* for (i = 0; i < snapshots.size(); i++) writeSnapshot(file, i, snapshots[i]),
\* from i on
WriteSnapshots(snaps, i) ==
  IF i >= Len(snaps) THEN <<>>
  ELSE writeSnapshot(i, snaps[i + 1]) \o WriteSnapshots(snaps, i + 1)

\* all the lines write() sends to the file
FileText(hdrs, snaps) == hdrs \o WriteSnapshots(snaps, 0)

\* a slip of write(): || in place of &&
NoContentEither(hdrs, snaps) == Len(hdrs) <= 0 \/ Len(snaps) <= 0

\* write(): the test for a Document with nothing to write
NoContent(hdrs, snaps) == Len(hdrs) <= 0 /\ Len(snaps) <= 0

\* ---------------------------------------------------------------- actions
InitState ==
  /\ headers = <<>>
  /\ snapshots = <<>>
  /\ it = 1
  /\ ret = 0
  /\ pc = "add"
  /\ status = "NONE"
  /\ snapshot = <<>>
  /\ ignore_header = FALSE
  /\ nread = 0
  /\ total = 0
  /\ output = <<>>
  /\ wret = <<>>
  /\ results = <<>>
  /\ unsorted = <<>>
  /\ event = "none"
  /\ span = <<>>
  /\ removed = {}

\* any list of at most MaxFiles paths, each one unreadable or with any text;
\* InputArgs() without -d
Init ==
  /\ paths \in UNION {[1..n -> {AnySource, NoSource}] : n \in 0..MaxFiles}
  /\ deleteSuccess = FALSE
  /\ InitState

\* any list of at most MaxFiles of the example files; InputArgs() without -d
InitExamples ==
  /\ paths \in UNION {[1..n -> ExampleSources] : n \in 0..MaxFiles}
  /\ deleteSuccess = FALSE
  /\ InitState

\* main: any list of at most MaxFiles of the example files, with or without -d
InitMain ==
  /\ paths \in UNION {[1..n -> ExampleSources] : n \in 0..MaxFiles}
  /\ deleteSuccess \in BOOLEAN
  /\ InitState

docVars == <<headers, snapshots>>
parserVars == <<status, snapshot, ignore_header, nread, total>>
writeVars == <<output, wret, unsorted>>
mainVars == <<deleteSuccess, removed>>

\* add(*it) on a path that does not open: appendFile returns 1
OpenFail ==
  /\ pc = "add" /\ it <= Len(paths) /\ ~paths[it].opens
  /\ ret' = LoopRet(ret, 1)
  /\ it' = LoopNext(it, 1)
  /\ results' = Append(results, 1)
  /\ event' = "none"
  /\ span' = <<>>
  /\ UNCHANGED <<docVars, parserVars, writeVars, paths, pc>>
  /\ UNCHANGED mainVars

\* add(*it) on a path that opens: appendFile up to the first getline
OpenOk ==
  /\ pc = "add" /\ it <= Len(paths) /\ paths[it].opens
  /\ ignore_header' = IgnoreHeaderArg(headers)
  /\ status' = "NONE"
  /\ snapshot' = <<>>
  /\ nread' = 0
  /\ pc' = "getline"
  /\ UNCHANGED total
  /\ event' = "none"
  /\ span' = <<>>
  /\ UNCHANGED <<docVars, writeVars, paths, it, ret, results>>
  /\ UNCHANGED mainVars

\* the open source has a next line, str
Delivers(src, k, str) ==
  IF src.text = <<>> THEN k < MaxLines /\ total < MaxTotal /\ str \in Lines
  ELSE k < Len(src.text[1]) /\ str = src.text[1][k + 1]

\* the open source may have no further line
AtEnd(src, k) == IF src.text = <<>> THEN TRUE ELSE k = Len(src.text[1])

\* what an iteration did to the pending snapshot p.snapshot
EventOf(p, q) ==
  IF Len(q.snapshots) > Len(p.snapshots) THEN "commit"
  ELSE IF p.snapshot # <<>> /\ q.snapshot = <<>> THEN "discard"
  ELSE IF p.snapshot = <<>> /\ q.snapshot # <<>> THEN "open"
  ELSE "none"

\* the lines read since the delimiter that opened the pending snapshot of p,
\* after str: empty when str opens a snapshot, longer by str while one is
\* open, kept as it is at the delimiter that ends it
SpanAfter(p, q, str) ==
  IF p.snapshot = <<>> THEN <<>>
  ELSE IF str = snapshot_mark THEN span
  ELSE Append(span, str)

\* getline delivers str: one iteration of the loop
GetLine(str) ==
  /\ pc = "getline" /\ Delivers(paths[it], nread, str)
  /\ LET q == ParseLine(Parser, str, ignore_header) IN
       /\ status' = q.status
       /\ snapshot' = q.snapshot
       /\ headers' = q.headers
       /\ snapshots' = q.snapshots
       /\ nread' = nread + 1
       /\ total' = total + 1
       /\ event' = EventOf(Parser, q)
       /\ span' = SpanAfter(Parser, q, str)
       /\ IF q.rc = "continue" THEN UNCHANGED <<pc, ret, it, results>>
          ELSE IF q.rc = "return2"
          THEN /\ pc' = "add"
               /\ ret' = LoopRet(ret, 2)
               /\ it' = LoopNext(it, 2)
               /\ results' = Append(results, 2)
          ELSE pc' = "terminated" /\ UNCHANGED <<ret, it, results>>
  /\ UNCHANGED <<writeVars, paths, ignore_header>>
  /\ UNCHANGED mainVars

\* getline reaches the end of the source: appendFile returns 0
EndOfFile ==
  /\ pc = "getline" /\ AtEnd(paths[it], nread)
  /\ LET q == ParseEnd(Parser) IN
       /\ snapshots' = q.snapshots
       /\ snapshot' = q.snapshot
       /\ event' = EventOf(Parser, q)
  /\ ret' = LoopRet(ret, 0)
  /\ it' = LoopNext(it, 0)
  /\ results' = Append(results, 0)
  /\ pc' = "add"
  /\ UNCHANGED <<headers, status, ignore_header, nread, total, writeVars, paths, span>>
  /\ UNCHANGED mainVars

\* add(first, last): it == last, return ret
AddReturn ==
  /\ pc = "add" /\ it > Len(paths)
  /\ pc' = "added"
  /\ event' = "none"
  /\ span' = <<>>
  /\ UNCHANGED <<docVars, parserVars, writeVars, paths, it, ret, results>>
  /\ UNCHANGED mainVars

addVars == <<paths, it, ret, results, event, span>>

\* write(): nothing to write
WriteEmpty ==
  /\ pc = "added"
  /\ NoContent(headers, snapshots)
  /\ wret' = <<-1>>
  /\ pc' = "done"
  /\ UNCHANGED <<docVars, parserVars, output, unsorted, addVars>>
  /\ UNCHANGED mainVars

\* write(): the file does not open
WriteOpenFail ==
  /\ pc = "added"
  /\ ~NoContent(headers, snapshots)
  /\ unsorted' = snapshots
  /\ snapshots' \in SortOutcomes(snapshots)
  /\ wret' = <<1>>
  /\ pc' = "done"
  /\ UNCHANGED <<headers, parserVars, output, addVars>>
  /\ UNCHANGED mainVars

\* write(): the stream fails while the headers (k = 0) or snapshot k - 1 are
\* written, return 2.  The file holds what was written before; how much of
\* the failing block reached it is not modelled.
WriteFail ==
  /\ pc = "added"
  /\ ~NoContent(headers, snapshots)
  /\ unsorted' = snapshots
  /\ snapshots' \in SortOutcomes(snapshots)
  /\ \E k \in 0..Len(snapshots) :
       output' = <<IF k = 0 THEN <<>>
                   ELSE FileText(headers, SubSeq(snapshots', 1, k - 1))>>
  /\ wret' = <<2>>
  /\ pc' = "done"
  /\ UNCHANGED <<headers, parserVars, addVars>>
  /\ UNCHANGED mainVars

\* write(): everything is written, file.close() fails, return 3
CloseFail ==
  /\ pc = "added"
  /\ ~NoContent(headers, snapshots)
  /\ unsorted' = snapshots
  /\ snapshots' \in SortOutcomes(snapshots)
  /\ output' = <<FileText(headers, snapshots')>>
  /\ wret' = <<3>>
  /\ pc' = "done"
  /\ UNCHANGED <<headers, parserVars, addVars>>
  /\ UNCHANGED mainVars

\* write(): everything is written and closed, return 0
WriteOk ==
  /\ pc = "added"
  /\ ~NoContent(headers, snapshots)
  /\ unsorted' = snapshots
  /\ snapshots' \in SortOutcomes(snapshots)
  /\ output' = <<FileText(headers, snapshots')>>
  /\ wret' = <<0>>
  /\ pc' = "done"
  /\ UNCHANGED <<headers, parserVars, addVars>>
  /\ UNCHANGED mainVars

\* a slip of main: the files are deleted whenever -d was given
DeleteGuardFlagOnly(w, d) == d

\* main: massifFile.write(args.outputFile) == 0 && args.deleteSuccess
DeleteGuard(w, d) == w = 0 /\ d

\* main: deleteFiles(args.inputFiles) after write() returned: remove() is
\* called on every input file, and each call deletes the file or fails
DeleteFiles ==
  /\ pc = "done"
  /\ DeleteGuard(wret[1], deleteSuccess)
  /\ removed' \in SUBSET (1..Len(paths))
  /\ pc' = "exit"
  /\ UNCHANGED <<docVars, parserVars, writeVars, addVars, deleteSuccess>>

\* main: return 0 without deleting anything
MainReturn ==
  /\ pc = "done"
  /\ ~DeleteGuard(wret[1], deleteSuccess)
  /\ pc' = "exit"
  /\ UNCHANGED <<docVars, parserVars, writeVars, addVars, mainVars>>

Next ==
  \/ OpenFail
  \/ OpenOk
  \/ \E str \in Lines \cup ExampleLines : GetLine(str)
  \/ EndOfFile
  \/ AddReturn
  \/ WriteEmpty
  \/ WriteOpenFail
  \/ WriteFail
  \/ CloseFail
  \/ WriteOk

\* every input list of the bounds
Spec == Init /\ [][Next]_vars

\* the input lists made of the example files
SpecExamples == InitExamples /\ [][Next]_vars

\* main: the files are added, the Document is written, then the input files
\* are deleted or not
NextMain == Next \/ DeleteFiles \/ MainReturn

\* main on the input lists made of the example files
SpecMain == InitMain /\ [][NextMain]_vars

\* ------------------------------------------------------- claims: helpers
\* the header-keyword lines of a text, in order
HeaderLines(text) == SelectSeq(text, keyword_regex)

\* the text of an example source (nothing for a path that does not open)
TextOf(src) == IF src.opens /\ src.text # <<>> THEN src.text[1] ELSE <<>>

\* the keys never decrease along s
Ascending(s) == \A i, j \in 1..Len(s) : i < j => s[i].time <= s[j].time

\* s and t hold the same elements the same number of times
SameBag(s, t) ==
  /\ Len(s) = Len(t)
  /\ \A x \in {s[i] : i \in 1..Len(s)} \cup {t[i] : i \in 1..Len(t)} :
       Cardinality({i \in 1..Len(s) : s[i] = x})
         = Cardinality({i \in 1..Len(t) : t[i] = x})

\* the written file, read back as the only source of a fresh Document
ReadBack == appendFile(<<>>, <<>>, output[1], IgnoreHeaderArg(<<>>))

\* number of lines of the written file before the block of snapshots[i]
RECURSIVE BlockStart(_)
BlockStart(i) ==
  IF i = 1 THEN Len(headers)
  ELSE BlockStart(i - 1) + 3 + Len(snapshots[i - 1].contents)

\* ---------------------------------------------------------------- claims
\* C1 (as claimed): merging [FileA, FileB] writes the headers <<desc: x>>,
\* then FileB's snapshot (key 50) as snapshot 0 and FileA's (key 100) as
\* snapshot 1, although FileB has no header line.
C1_EndToEndExample ==
  (paths = <<FileOf(FileA), FileOf(FileB)>> /\ pc = "done" /\ wret = <<0>>) =>
    /\ headers = <<LineDesc>>
    /\ snapshots = <<[time |-> 50, contents |-> <<LineTime50, LineHeap5>>],
                     [time |-> 100, contents |-> <<LineTime100, LineHeap10>>]>>
    /\ output = <<<<LineDesc,
                    snapshot_mark, <<"snapshot=", "0">>, snapshot_mark,
                    LineTime50, LineHeap5,
                    snapshot_mark, <<"snapshot=", "1">>, snapshot_mark,
                    LineTime100, LineHeap10>>>>

\* C2: after a successful write() the snapshot blocks of the output are in
\* ascending order of their chronological key: no block precedes one with a
\* smaller key, in the Document as emitted and in the file read back.
C2_OrderInvariant ==
  wret = <<0>> =>
    /\ Ascending(snapshots)
    /\ Len(ReadBack.snapshots) = Len(snapshots)
    /\ Ascending(ReadBack.snapshots)

\* C2 witness: a successful write() whose std::sort had to reorder snapshots
C2_Witness ==
  /\ wret = <<0>>
  /\ Len(snapshots) >= 2
  /\ unsorted # snapshots
  /\ snapshots[1].time < snapshots[2].time

\* C3: the file written by a successful write() is the headers followed by
\* one block per snapshot, and block i (counted from 0) is the delimiter, an
\* index line "snapshot=" followed by the decimal digits of i, the delimiter,
\* and the body lines of the snapshot, whatever the sources' index lines said.
C3_Renumbering ==
  wret = <<0>> =>
    LET text == output[1]
        n == Len(snapshots)
    IN /\ SubSeq(text, 1, Len(headers)) = headers
       /\ Len(text) = IF n = 0 THEN Len(headers)
                      ELSE BlockStart(n) + 3 + Len(snapshots[n].contents)
       /\ \A i \in 1..n :
            LET b == BlockStart(i) IN
              /\ text[b + 1] = snapshot_mark
              /\ Len(text[b + 2]) >= 2
              /\ text[b + 2][1] = "snapshot="
              /\ stoi(Tail(text[b + 2])) = <<TRUE, i - 1>>
              /\ text[b + 3] = snapshot_mark
              /\ SubSeq(text, b + 4, b + 3 + Len(snapshots[i].contents))
                   = snapshots[i].contents

\* C3 witness: two blocks written, from sources whose index lines all read
\* snapshot=7, one body holding the index-like line snapshot=7
C3_Witness ==
  /\ wret = <<0>>
  /\ Len(snapshots) >= 2
  /\ \E i \in 1..Len(snapshots) :
       \E k \in 1..Len(snapshots[i].contents) : snapshots[i].contents[k] = LineSnap7

\* the header lines of the first source of srcs that opens and has any
RECURSIVE FirstHeaders(_)
FirstHeaders(srcs) ==
  IF srcs = <<>> THEN <<>>
  ELSE IF HeaderLines(TextOf(Head(srcs))) # <<>> THEN HeaderLines(TextOf(Head(srcs)))
  ELSE FirstHeaders(Tail(srcs))

\* C4 (as claimed): for two readable sources with distinct header-line
\* sequences, one of which may be empty, merging [S1, S2] leaves exactly the
\* header lines of S1.
C4_HeaderPrecedence ==
  (/\ pc = "added"
   /\ Len(paths) = 2
   /\ paths[1].opens /\ paths[2].opens
   /\ HeaderLines(TextOf(paths[1])) # HeaderLines(TextOf(paths[2])))
    => headers = HeaderLines(TextOf(paths[1]))

\* C4 (amended): once all the sources are added, the headers are the header
\* lines, in source order, of the first source of the list that opens and
\* holds at least one header line (none if there is no such source); no
\* other source contributes a header.
C4_FirstSourceWithHeaders ==
  pc = "added" => headers = FirstHeaders(paths)

\* C4 witness: [S1, S2] where S1 has no header line and S2 has some
C4_Witness ==
  /\ pc = "added"
  /\ Len(paths) = 2
  /\ paths[1].opens /\ paths[2].opens
  /\ HeaderLines(TextOf(paths[1])) = <<>>
  /\ headers = HeaderLines(TextOf(paths[2]))
  /\ headers # <<>>

\* C5: the file written by a successful write(), parsed as the only source
\* of a fresh Document, parses with status 0 and yields the same multiset of
\* (key, body) pairs as the Document that was written.
C5_RoundTrip ==
  wret = <<0>> =>
    /\ ReadBack.rc = "return0"
    /\ SameBag(ReadBack.snapshots, snapshots)
    /\ SameBag(ReadBack.snapshots, unsorted)

\* C5 witness: a written Document of two snapshots, one of them without key
C5_Witness ==
  /\ wret = <<0>>
  /\ Len(snapshots) >= 2
  /\ snapshots[1].time = 0
  /\ snapshots[2].time > 0

\* every sequence of one to three lines of Lines
Continuations ==
  {<<a>> : a \in Lines} \cup {<<a, b>> : a, b \in Lines}
    \cup {<<a, b, c>> : a, b, c \in Lines}

\* C6 (as claimed): once an open sequence has left a pending snapshot, there
\* are following lines (a second open sequence not preceded by a closing
\* delimiter) on which appendFile returns 2 at the delimiter that ends the
\* second open sequence.
C6_DuplicateOpenFails ==
  (pc = "getline" /\ snapshot # <<>>) =>
    \E t \in Continuations : ParseLoop(Parser, t, 1, ignore_header).rc = "return2"

\* C6 (amended): no input makes appendFile return 2.  A delimiter is taken as
\* the first line of an open sequence only in status HEADER or
\* SNAPSHOT_CONTENT, where it first releases the pending snapshot (committed
\* if it has body lines), so no pending snapshot exists in status
\* SNAPSHOT_MARK or SNAPSHOT_NAME; an open sequence that follows a pending
\* snapshot is parsed without failure and starts a new empty snapshot.
C6_NoDuplicateOpen ==
  /\ \A i \in 1..Len(results) : results[i] # 2
  /\ (pc = "getline" /\ status \in {"SNAPSHOT_MARK", "SNAPSHOT_NAME"})
       => snapshot = <<>>
  /\ (pc = "getline" /\ snapshot # <<>>) =>
       LET q == ParseLoop(Parser, <<snapshot_mark, LineSnap7, snapshot_mark>>, 1,
                          ignore_header)
       IN /\ q.rc = "continue"
          /\ q.status = "SNAPSHOT_CONTENT"
          /\ q.snapshot = <<NewSnapshot>>
          /\ q.snapshots = IF Len(snapshot[1].contents) > 0
                           THEN Append(snapshots, snapshot[1]) ELSE snapshots

\* C6 witness: in the first source a second open sequence has just ended
\* after a snapshot with a body, and the source is still being parsed
C6_Witness ==
  /\ pc = "getline" /\ it = 1
  /\ event = "open"
  /\ Len(snapshots) = 1
  /\ status = "SNAPSHOT_CONTENT"
  /\ snapshot = <<NewSnapshot>>

\* C7, every snapshot of the Document has at least one body line
C7_NoEmptySnapshot ==
  \A i \in 1..Len(snapshots) : Len(snapshots[i].contents) >= 1

\* C7, a step that releases a pending snapshot without body lines (at a
\* delimiter or at the end of input) leaves the snapshots of the Document
\* unchanged and is no failure
C7_DiscardStep ==
  (pc = "getline" /\ snapshot # <<>> /\ snapshot' = <<>>
     /\ Len(snapshot[1].contents) = 0)
    => /\ snapshots' = snapshots
       /\ pc' \in {"getline", "add"}
       /\ results' = results \/ results' = Append(results, 0)

\* C7, two consecutive empty open sequences after a header line parse with
\* status 0 and add nothing
C7_TwoEmptyOpens ==
  (pc = "add" /\ it <= Len(paths)) =>
    LET q == appendFile(headers, snapshots,
                        <<LineDesc, snapshot_mark, LineSnap7, snapshot_mark,
                          snapshot_mark, LineSnap7, snapshot_mark>>,
                        IgnoreHeaderArg(headers))
    IN q.rc = "return0" /\ q.snapshots = snapshots

\* C7: a snapshot region that receives no content line before the next
\* delimiter or the end of input is never committed, and dropping it is not
\* an error: every snapshot of the Document has at least one body line, and
\* two consecutive empty open sequences parse with status 0 and add nothing.
C7_EmptyBodyDiscard ==
  /\ []C7_NoEmptySnapshot
  /\ [][C7_DiscardStep]_vars
  /\ []C7_TwoEmptyOpens

\* C7 witness: an empty snapshot region has just been closed by a delimiter
C7_Witness ==
  /\ pc = "getline"
  /\ event = "discard"
  /\ status = "SNAPSHOT_MARK"
  /\ snapshots = <<>>

\* the last status of rs that is not 0, or 0
RECURSIVE LastFailure(_)
LastFailure(rs) ==
  IF rs = <<>> THEN 0
  ELSE IF rs[Len(rs)] # 0 THEN rs[Len(rs)]
  ELSE LastFailure(SubSeq(rs, 1, Len(rs) - 1))

\* C8: add(first, last) handles every path of the list, in order, whatever
\* the earlier paths returned, and returns the status of the last path that
\* failed: 0 if and only if every path returned 0.  While path k is handled
\* the statuses of the k - 1 paths before it are recorded.
C8_BestEffort ==
  /\ Len(results) = IF pc \in {"add", "getline", "terminated"} THEN it - 1
                    ELSE Len(paths)
  /\ pc = "getline" => paths[it].opens
  /\ \A i \in 1..Len(results) : ~paths[i].opens => results[i] = 1
  /\ pc \in {"added", "done"} =>
       /\ Len(results) = Len(paths)
       /\ ret = LastFailure(results)
       /\ (ret = 0 <=> \A i \in 1..Len(results) : results[i] = 0)

\* C8 witness: add returns after a path that failed and a later one that
\* was parsed and contributed a snapshot
C8_Witness ==
  /\ pc = "added"
  /\ Len(results) = 2
  /\ results[1] = 1 /\ results[2] = 0
  /\ Len(snapshots) >= 1
  /\ ret = 1

\* C9 (as claimed): the body of a committed snapshot is exactly the lines
\* read between the delimiter that opened it and the next delimiter or the
\* end of input, in order: none of them is dropped or diverted.
C9_BodyPreservation ==
  event = "commit" => snapshots[Len(snapshots)].contents = span

\* the lines of a body that match time=(\d+)
TimeLines(contents) == SelectSeq(contents, snapshot_time_regex)

\* the key captured from the first line of the body that matches, 0 if none
FirstKey(contents) ==
  IF TimeLines(contents) = <<>> THEN 0
  ELSE stoi(TimeCapture(TimeLines(contents)[1]))[2]

\* C10 (as claimed): the key of a committed snapshot is the integer captured
\* from the first body line that matches time=(\d+), whatever later lines
\* match, and 0 when no body line matches.
C10_FirstMatchWins ==
  \A i \in 1..Len(snapshots) : snapshots[i].time = FirstKey(snapshots[i].contents)

\* C11: write() returns -1 exactly when the Document holds no header and no
\* snapshot, and then no output exists: the destination is not opened.  An
\* empty input list ends this way; a Document with a header or a snapshot
\* never does.
C11_EmptyDocument ==
  wret # <<>> =>
    /\ wret = <<-1>> <=> (Len(headers) = 0 /\ Len(snapshots) = 0)
    /\ wret = <<-1>> => output = <<>>
    /\ paths = <<>> => (wret = <<-1>> /\ output = <<>>)

\* C11 witness: write() has returned -1 after a readable source was parsed
\* to its end without leaving a header or a snapshot
C11_Witness ==
  /\ wret = <<-1>>
  /\ Len(paths) >= 1
  /\ results[1] = 0
  /\ total >= 1
  /\ output = <<>>

\* C12, input files are deleted only by the step main takes after write()
\* has returned 0, and only when -d was given: nothing is deleted before
\* write() returns, and nothing is ever deleted on a run where write()
\* returns -1, 1, 2 or 3 or where -d is absent.
C12_DeleteStep ==
  removed' # removed =>
    /\ pc = "done" /\ pc' = "exit"
    /\ wret = <<0>> /\ deleteSuccess
    /\ output # <<>>

\* C12, no file is deleted unless main is past a write() that returned 0
\* with -d given
C12_NoEarlyDelete ==
  removed # {} => (pc = "exit" /\ wret = <<0>> /\ deleteSuccess)

\* C12: deletion of the input files happens only after write() has returned
\* 0 and only with -d; it never precedes the write and never follows a
\* failed write.
C12_DeletionOrdering == []C12_NoEarlyDelete /\ [][C12_DeleteStep]_vars

\* C12 witness: main has deleted both input files after a successful write
C12_Witness ==
  /\ pc = "exit"
  /\ wret = <<0>>
  /\ deleteSuccess
  /\ Len(paths) = 2
  /\ removed = {1, 2}

\* C13 (as claimed): no line of a source makes the process end abnormally:
\* every loop iteration of appendFile goes on to the next line or returns a
\* status, also on a body line whose time= digits exceed the range of int.
C13_NoTermination == pc # "terminated"

\* the texts of the example files
ExampleTexts == {TextOf(src) : src \in ExampleSources}

\* C14, whatever line comes next: a header-keyword line moves the parser to
\* HEADER and is appended to the headers exactly when the pass captures
\* headers; any other line leaves the headers as they are
C14_LineFrame ==
  pc = "getline" =>
    \A str \in Lines \cup ExampleLines :
      LET q == ParseLine(Parser, str, ignore_header) IN
        IF keyword_regex(str)
        THEN /\ q.status = "HEADER"
             /\ q.rc = "continue"
             /\ q.headers = IF ignore_header THEN headers ELSE Append(headers, str)
        ELSE q.headers = headers

\* C14, whatever source comes next: a pass started with headers in the
\* Document leaves them unchanged, a pass started without any leaves exactly
\* the header-keyword lines of the source, in order
C14_PassFrame ==
  (pc = "add" /\ it <= Len(paths)) =>
    \A text \in ExampleTexts :
      LET q == appendFile(headers, snapshots, text, IgnoreHeaderArg(headers)) IN
        q.headers = IF Len(headers) > 0 THEN headers ELSE HeaderLines(text)

\* C14, the flag of a pass is set exactly when the pass started with headers
C14_Flag ==
  pc = "getline" => (ignore_header => Len(headers) > 0)

\* C14, no step of a pass that does not capture headers changes the headers
C14_IgnoringStep ==
  (pc = "getline" /\ ignore_header) => headers' = headers

\* C14: a pass started on a Document with headers never changes the header
\* sequence, although each header-keyword line still moves the parser to
\* HEADER; a pass started without headers appends every header-keyword line
\* of the source, in order, wherever it occurs.
C14_HeaderFrame ==
  /\ []C14_LineFrame
  /\ []C14_PassFrame
  /\ []C14_Flag
  /\ [][C14_IgnoringStep]_vars

\* C14 witness: in the second source, parsed without capture, a
\* header-keyword line inside a snapshot body has moved the parser to HEADER
\* and the headers are still the one line of the first source
C14_Witness ==
  /\ pc = "getline" /\ it = 2
  /\ ignore_header
  /\ status = "HEADER"
  /\ snapshot # <<>>
  /\ Len(snapshot[1].contents) >= 1
  /\ Len(headers) = 1

\* the path opens
Opens(src) == src.opens

\* the Document <<headers, snapshots>> after add() on each of the texts in
\* turn, starting from the Document <<hdrs, snaps>>
RECURSIVE AddAll(_, _, _)
AddAll(texts, hdrs, snaps) ==
  IF texts = <<>> THEN <<hdrs, snaps>>
  ELSE LET q == appendFile(hdrs, snaps, Head(texts), IgnoreHeaderArg(hdrs))
       IN AddAll(Tail(texts), q.headers, q.snapshots)

\* the texts of the paths of srcs that open, in list order
ReadableTexts(srcs) ==
  LET r == SelectSeq(srcs, Opens) IN [i \in 1..Len(r) |-> TextOf(r[i])]

\* C15, add() on a path that does not open returns a nonzero status, leaves
\* the headers and the snapshots as they were and goes on to the next path
C15_SkipStep ==
  (pc = "add" /\ it <= Len(paths) /\ ~paths[it].opens) =>
    /\ headers' = headers
    /\ snapshots' = snapshots
    /\ Len(results') = Len(results) + 1
    /\ results'[Len(results')] # 0
    /\ ret' # 0
    /\ it' = it + 1
    /\ pc' = "add"

\* C15, once every path is handled the Document is the one obtained from
\* the list without its unreadable paths
C15_AsIfNotListed ==
  pc = "added" => <<headers, snapshots>> = AddAll(ReadableTexts(paths), <<>>, <<>>)

\* C15: a source that cannot be opened makes add(path) return a nonzero
\* status without changing headers or snapshots; the other sources are
\* parsed as if it had not been listed, a later one contributing the headers
\* when the Document still has none.
C15_SourceUnavailable ==
  /\ [][C15_SkipStep]_vars
  /\ []C15_AsIfNotListed

\* C15 witness: the first path did not open, the second one was parsed and
\* gave the Document its headers and a snapshot
C15_Witness ==
  /\ pc = "added"
  /\ Len(paths) = 2
  /\ ~paths[1].opens
  /\ results = <<1, 0>>
  /\ Len(headers) >= 1
  /\ Len(snapshots) >= 1

\* the snapshots after the pending snapshot snap, if it has a body line,
\* is committed once
CommittedOnce(snaps, snap) ==
  IF snap # <<>> /\ Len(snap[1].contents) >= 1 THEN snaps \o <<snap[1]>> ELSE snaps

\* C16, in every parser state the end of input returns 0, commits the
\* pending snapshot once if it has a body line and changes nothing else; in
\* HEADER and SNAPSHOT_CONTENT a delimiter commits the same
C16_EndAnywhere ==
  pc = "getline" =>
    LET q == ParseEnd(Parser) IN
      /\ status \in {"NONE", "HEADER", "SNAPSHOT_MARK", "SNAPSHOT_NAME",
                      "SNAPSHOT_CONTENT"}
      /\ q.rc = "return0"
      /\ q.headers = headers
      /\ q.snapshots = CommittedOnce(snapshots, snapshot)
      /\ status \in {"HEADER", "SNAPSHOT_CONTENT"} =>
           ParseLine(Parser, snapshot_mark, ignore_header).snapshots = q.snapshots

\* C16, the step taken at the end of input
C16_EndStep ==
  (pc = "getline" /\ pc' = "add" /\ nread' = nread) =>
    /\ results' = Append(results, 0)
    /\ headers' = headers
    /\ snapshots' = CommittedOnce(snapshots, snapshot)

\* C16: end of input is accepted in every parser state and returns 0; a
\* pending snapshot with at least one body line is then committed exactly
\* once, in SNAPSHOT_CONTENT as well as in HEADER (a header-keyword line
\* after the body started), by the rule of the closing delimiter.
C16_EndOfInputCommit ==
  /\ []C16_EndAnywhere
  /\ [][C16_EndStep]_vars

\* C16 witness: the end of input has committed a snapshot that a
\* header-keyword line had left pending in status HEADER
C16_Witness ==
  /\ pc = "add"
  /\ event = "commit"
  /\ status = "HEADER"
  /\ results # <<>> /\ results[Len(results)] = 0
  /\ Len(snapshots) >= 1

\* lines that are in no source of the model: an empty line, an index line
\* without digits, a header keyword that is not at the start of the line, a
\* time= line without digits
OddLines == {<<>>, <<"snapshot=">>, <<" ", "desc:">>, <<"time=">>}

\* the line holds snapshot= followed by a digit
HasIndex(str) ==
  \E i \in 1..(Len(str) - 1) :
    str[i] = "snapshot=" /\ str[i + 1] \in {Digits[d] : d \in 1..10}

\* the line starts with one of the three header keywords
HasKeyword(str) == str # <<>> /\ Head(str) \in {"desc:", "cmd:", "time_unit:"}

\* no row of the transition table applies to str in status st
NoRow(st, str) ==
  /\ ~HasKeyword(str)
  /\ \/ st = "NONE"
     \/ st = "HEADER" /\ str # <<"#-----------">>
     \/ st = "SNAPSHOT_MARK" /\ ~HasIndex(str)
     \/ st = "SNAPSHOT_NAME" /\ str # <<"#-----------">>

\* C17: a line to which no row of the table applies in the current status
\* (any line but a header line in NONE, any but a header line or a delimiter
\* in HEADER and in SNAPSHOT_NAME, any but a header line or an index line in
\* SNAPSHOT_MARK) is dropped: the iteration goes on to the next line with
\* status, pending snapshot, headers and snapshots unchanged.
C17_DroppedLines ==
  pc = "getline" =>
    \A str \in Lines \cup ExampleLines \cup OddLines :
      NoRow(status, str) => ParseLine(Parser, str, ignore_header) = Parser

\* C17 witness: three lines of the first source are read, one of them was
\* dropped, and the parser waits for an index line
C17_Witness ==
  /\ pc = "getline" /\ it = 1
  /\ nread = 3
  /\ status = "SNAPSHOT_MARK"
  /\ Len(headers) = 1
  /\ event = "none"

\* a pending snapshot exists in SNAPSHOT_CONTENT, may exist in HEADER and
\* does not exist in NONE, SNAPSHOT_MARK and SNAPSHOT_NAME
SlotInvariant(st, snap) ==
  /\ st = "SNAPSHOT_CONTENT" => snap # <<>>
  /\ st \in {"NONE", "SNAPSHOT_MARK", "SNAPSHOT_NAME"} => snap = <<>>

C19_SnapshotsNeedHeaders ==
  /\ Len(snapshots) >= 1 => Len(headers) >= 1
  /\ snapshot # <<>> => Len(headers) >= 1
  /\ wret # <<>> => (wret = <<-1>> <=> Len(headers) = 0)

\* C19 witness: two sources were added, each gave a snapshot, and the one
\* header is that of the first
C19_Witness ==
  /\ pc = "added"
  /\ results = <<0, 0>>
  /\ Len(snapshots) = 2
  /\ Len(headers) = 1

\* the snapshots of a source parsed alone into a fresh Document
Fresh(text) == appendFile(<<>>, <<>>, text, IgnoreHeaderArg(<<>>)).snapshots

\* the snapshots of each text parsed into its own fresh Document, concatenated
RECURSIVE ConcatFresh(_)
ConcatFresh(texts) ==
  IF texts = <<>> THEN <<>> ELSE Fresh(Head(texts)) \o ConcatFresh(Tail(texts))

\* C20: the snapshots a pass appends are those the source gives when parsed
\* alone into a fresh Document, whether or not the pass captures headers and
\* whatever the Document held before; so after the sources are parsed one
\* after another into the shared Document its snapshots are the fresh
\* results of the readable sources, concatenated in list order (the same
\* sequence, hence the same multiset).
C20_SourceIndependence ==
  /\ pc \in {"add", "added"} =>
       snapshots = ConcatFresh(ReadableTexts(SubSeq(paths, 1, it - 1)))
  /\ pc = "add" =>
       \A text \in ExampleTexts :
         \A ignore \in BOOLEAN :
           LET q == appendFile(headers, snapshots, text, ignore) IN
             q.rc = "return0" /\ q.snapshots = snapshots \o Fresh(text)

\* C20 witness: two readable sources with header lines of their own, the
\* second parsed without capture, have left three snapshots
C20_Witness ==
  /\ pc = "added"
  /\ results = <<0, 0>>
  /\ HeaderLines(TextOf(paths[1])) # <<>>
  /\ HeaderLines(TextOf(paths[2])) # <<>>
  /\ Len(Fresh(TextOf(paths[2]))) >= 1
  /\ Len(snapshots) = 3

====
